---- MODULE Spec2Model ----
(***************************************************************************)
(* Model of the adventure-log page: the waypoint photo attachment flow     *)
(* (AdventureLogPage + WaypointUpload) and the nearest-waypoint scan.      *)
(*                                                                         *)
(* Coordinates are whole degrees that are multiples of 60, so that every   *)
(* cosine the haversine formula needs is a multiple of 1/2 and the formula *)
(* can be evaluated exactly in integers.                                   *)
(***************************************************************************)
EXTENDS Integers, Sequences, FiniteSets, Bags, TLC

\* ---------------------------------------------------------------- bounds
MaxLen == 3       \* longest waypoint sequence the matcher is run on
MaxPending == 2   \* asynchronous operations (exifr, compression) in flight
MaxNight == 4     \* longest timed track the night-watch pass is run on
MaxEarly == 2     \* highlight keys that are switched before the map is built
MaxBuilds == 3    \* buildMap calls awaiting leaflet at the same time

\* ------------------------------------------------------------ null value
Null == [null |-> TRUE]

\* ------------------------------------------------------- track dataset
\* A waypoint of journey-data: index equals the array position (0-based).
Waypoint(i, lat, lon) == [index |-> i, lat |-> lat, lon |-> lon]

Lats == {-60, 0, 60}
Lons == {-120, 60, 180}
Points == Lats \X Lons

\* All waypoint sequences of length n over Points.
DatasetsOfLen(n) ==
  { [i \in 1..n |-> Waypoint(i - 1, s[i][1], s[i][2])] : s \in [1..n -> Points] }

Datasets == UNION { DatasetsOfLen(n) : n \in 0..MaxLen }

\* The track the page is built with.
TRACK == << Waypoint(0, 0, 120), Waypoint(1, -60, 180) >>

WaypointAtUnchecked(wps, i) ==
  IF i >= 0 /\ i < Len(wps) THEN wps[i + 1] ELSE Waypoint(i, 0, 0)

\* WAYPOINTS[i] of the source (0-based); undefined (Null) out of range.
WaypointAt(wps, i) == IF i >= 0 /\ i < Len(wps) THEN wps[i + 1] ELSE Null

\* ------------------------------------------------------------- haversine
\* 2*cos(deg) for deg a multiple of 60.
Cos2(deg) ==
  LET m == deg % 360
  IN  CASE m = 0 -> 2
        [] m = 60 -> 1
        [] m = 120 -> -1
        [] m = 180 -> -2
        [] m = 240 -> -1
        [] m = 300 -> 1

\* 16*a, where a = sin^2(dLat/2) + cos(lat1)*cos(lat2)*sin^2(dLon/2) and
\* sin^2(x/2) = (1 - cos x)/2.  The distance 2*R*asin(sqrt(a)) is strictly
\* increasing in a, so distances compare as these integers do.
haversine(lat1, lon1, lat2, lon2) ==
  4 * (2 - Cos2(lat2 - lat1))
    + Cos2(lat1) * Cos2(lat2) * (2 - Cos2(lon2 - lon1))

\* Larger than every value of haversine (16*a <= 16).
Infinity == 1000

\* ------------------------------------------------- nearest waypoint scan
CloserSwapped(d, bestDist) == d > bestDist

CloserOrEqual(d, bestDist) == d <= bestDist

CloserFirstOnly(d, bestDist) == bestDist = Infinity

\* The test of the scan: d < bestDist.
Closer(d, bestDist) == d < bestDist

RECURSIVE ScanFrom(_, _, _, _, _, _)
ScanFrom(wps, i, lat, lon, best, bestDist) ==
  IF i > Len(wps) THEN best
  ELSE LET wp == wps[i]
           d == haversine(lat, lon, wp.lat, wp.lon)
       IN  IF Closer(d, bestDist)
           THEN ScanFrom(wps, i + 1, lat, lon, wp, d)
           ELSE ScanFrom(wps, i + 1, lat, lon, best, bestDist)

\* let best = null; let bestDist = Infinity; for (const wp of WAYPOINTS) ...
NearestWaypoint(wps, lat, lon) == ScanFrom(wps, 1, lat, lon, Null, Infinity)

\* ----------------------------------------------------------------- files
\* A file is described by what the browser and exifr make of it:
\*   gps   - the outcome of exifr.gps(file): [throws |-> TRUE], Null
\*           (no GPS block) or [latitude |-> .., longitude |-> ..];
\*   image - whether the browser can decode it (img.onload vs img.onerror).
Throws == [throws |-> TRUE]
GpsAt(lat, lon) == [latitude |-> lat, longitude |-> lon]

File(name, gps, image) == [name |-> name, gps |-> gps, image |-> image]

Files == { File("plain", Null, TRUE),
           File("corrupt", Throws, FALSE),
           File("geo", GpsAt(-60, 180), TRUE),
           File("equator", GpsAt(0, 120), TRUE) }

\* URL.createObjectURL(file)
createObjectURL(file) == [blob |-> file.name]

\* The resolved value of compressToBase64(file).
compressToBase64(file) == [jpeg |-> file.name]

\* const MAX_W = 1200
MAX_W == 1200

\* Math.round(n / d) for n >= 0 and d > 0: halves round up.
RoundDiv(n, d) == (2 * n + d) \div (2 * d)

canvasSizeFloored(width, height) ==
  IF width > MAX_W
  THEN [width |-> MAX_W, height |-> (height * MAX_W) \div width]
  ELSE [width |-> width, height |-> height]

\* img.onload of compressToBase64: the size the image is drawn at.
canvasSizeOf(width, height) ==
  IF width > MAX_W
  THEN [width |-> MAX_W, height |-> RoundDiv(height * MAX_W, width)]
  ELSE [width |-> width, height |-> height]

\* JavaScript truthiness of a number.
Truthy(n) == n # 0

IsCoordinate(gps) == gps # Null /\ gps # Throws

\* gps && gps.latitude && gps.longitude
GpsFound(gps) ==
  IsCoordinate(gps) /\ Truthy(gps.latitude) /\ Truthy(gps.longitude)

\* ------------------------------------------------------ waypoint times
\* wp.time is an ISO timestamp with a zone offset: local day, hour and minute
\* and the offset from UTC in minutes ("2026-02-11T17:30:00+09:30").
IsoTime(day, hour, minute, offset) ==
  [day |-> day, hour |-> hour, minute |-> minute, offset |-> offset]

\* new Date(isoTime): minutes since 00:00 UTC of day 0.
DateOf(t) == t.day * 1440 + t.hour * 60 + t.minute - t.offset

\* Date.prototype.getUTCHours
getUTCHours(instant) == (instant \div 60) % 24

isNightUTCInclusive(isoTime) ==
  LET h == getUTCHours(DateOf(isoTime)) IN h >= 8 /\ h <= 21

\* const h = new Date(isoTime).getUTCHours(); return h >= 8 && h < 21;
isNightUTC(isoTime) ==
  LET h == getUTCHours(DateOf(isoTime)) IN h >= 8 /\ h < 21

\* A waypoint of journey-data with the fields the chart reads.
ChartWaypoint(i, lat, lon, time, leg) ==
  [index |-> i, lat |-> lat, lon |-> lon, time |-> time, leg |-> leg]

\* ------------------------------------------------------ night-watch pass
\* [wp.lat, wp.lon]
LatLon(wp) == << wp.lat, wp.lon >>

\* L.polyline(points, ...) of the night layer.
NightPolyline(points) == [layer |-> "nightWatch", kind |-> "polyline", points |-> points]

\* The loop state: the run being collected and the polylines added so far.
NightStart == [segment |-> << >>, layer |-> << >>]

\* One iteration of the loop over WAYPOINTS.
NightIteration(st, wp) ==
  IF isNightUTC(wp.time)
  THEN [st EXCEPT !.segment = Append(st.segment, LatLon(wp))]
  ELSE [segment |-> << >>,
        layer |-> IF Len(st.segment) > 1
                  THEN Append(st.layer, NightPolyline(st.segment))
                  ELSE st.layer]

NightFlushForgotten(st) == st.layer

\* After the loop: if (nightSegment.length > 1) add the last run.
NightFlush(st) ==
  IF Len(st.segment) > 1
  THEN Append(st.layer, NightPolyline(st.segment))
  ELSE st.layer

RECURSIVE NightLoop(_, _, _)
NightLoop(wps, i, st) ==
  IF i > Len(wps) THEN st ELSE NightLoop(wps, i + 1, NightIteration(st, wps[i]))

\* The polylines of the night layer that buildMap makes for a track.
NightWatchLayer(wps) == NightFlush(NightLoop(wps, 1, NightStart))

\* ------------------------------------------------------------ highlights
\* The keys of HighlightState, in the order of its declaration.
HighlightKeys ==
  << "nightWatch", "topSpeed", "fastest6h", "fish", "storm", "thursdayIsland",
     "diving", "cairns" >>

KeySet == { HighlightKeys[i] : i \in 1..Len(HighlightKeys) }

\* useState<HighlightState>({ nightWatch: true, ... })
AllOn == [k \in KeySet |-> TRUE]

handleHighlightChangeFromDefaults(prev, key, value) ==
  [AllOn EXCEPT ![key] = value]

\* setHighlights((prev) => ({ ...prev, [key]: value }))
handleHighlightChange(prev, key, value) ==
  [prev EXCEPT ![key] = value]

RECURSIVE SetEach(_, _, _)
SetEachLastOnly(prev, i, value) ==
  handleHighlightChange(prev, HighlightKeys[Len(HighlightKeys)], value)

\* Object.keys(highlights).forEach((k) => onHighlightChange(k, value)): the
\* queued updaters applied in order, from key number i on.
SetEach(prev, i, value) ==
  IF i > Len(HighlightKeys) THEN prev
  ELSE SetEach(handleHighlightChange(prev, HighlightKeys[i], value), i + 1, value)

\* ------------------------------------------------------------ map layers
\* null of activeLeg and expandedLeg (string | null).
NullLeg == "(null)"

\* A Leaflet LayerGroup with the shapes added to it.
LayerGroup(shapes) == [shapes |-> shapes]

\* legGroups[leg]: the points of the waypoints of a leg, in track order.
RECURSIVE LegCoords(_, _, _)
LegCoords(wps, leg, i) ==
  IF i > Len(wps) THEN << >>
  ELSE (IF wps[i].leg = leg THEN << LatLon(wps[i]) >> ELSE << >>)
         \o LegCoords(wps, leg, i + 1)

LegNames(wps) == { wps[i].leg : i \in 1..Len(wps) }

\* L.polyline(coords, { color, weight, opacity }) of a leg; opacity in percent.
LegPolyline(leg, coords, weight, opacity) ==
  [layer |-> "legs", kind |-> "polyline", leg |-> leg, points |-> coords,
   weight |-> weight, opacity |-> opacity]

\* activeLeg === null || activeLeg === legName
IsActiveLeg(activeLeg, legName) == activeLeg = NullLeg \/ activeLeg = legName

\* buildMap: the glow line and the bright line of every leg.
BuildLegLayer(wps, activeLeg) ==
  LayerGroup(UNION {
    { LegPolyline(leg, LegCoords(wps, leg, 1), 8,
                  IF IsActiveLeg(activeLeg, leg) THEN 15 ELSE 5),
      LegPolyline(leg, LegCoords(wps, leg, 1), 3,
                  IF IsActiveLeg(activeLeg, leg) THEN 95 ELSE 25) }
    : leg \in LegNames(wps) })

\* activeLeg effect: the leg layer drawn again.
RedrawLegLayer(wps, activeLeg) ==
  LayerGroup(UNION {
    { LegPolyline(leg, LegCoords(wps, leg, 1), 8,
                  IF IsActiveLeg(activeLeg, leg) THEN 15 ELSE 4),
      LegPolyline(leg, LegCoords(wps, leg, 1), 3,
                  IF IsActiveLeg(activeLeg, leg) THEN 95 ELSE 20) }
    : leg \in LegNames(wps) })

\* The night layer: the polylines of the night-watch pass.
NightLayerGroup(wps) ==
  LET made == NightWatchLayer(wps)
  IN  LayerGroup({ made[i] : i \in 1..Len(made) })

Marker(layer, at) == [layer |-> layer, kind |-> "marker", at |-> at]

TopSpeedLayerUnguarded(top) ==
  LayerGroup({ Marker("topSpeed", << 0, 0 >>) })

\* if (TOP_SPEED_1H) { polyline from-to and a label marker at the midpoint }
TopSpeedLayer(top) ==
  IF top # Null
  THEN LayerGroup({
         [layer |-> "topSpeed", kind |-> "polyline",
          points |-> << << top.fromLat, top.fromLon >>, << top.toLat, top.toLon >> >>],
         Marker("topSpeed", << (top.fromLat + top.toLat) \div 2,
                               (top.fromLon + top.toLon) \div 2 >>) })
  ELSE LayerGroup({})

\* WAYPOINTS.slice(fromIdx, toIdx + 1).map((wp) => [wp.lat, wp.lon])
SegPts(wps, fromIdx, toIdx) ==
  LET hi == IF toIdx + 1 < Len(wps) THEN toIdx + 1 ELSE Len(wps)
  IN  [k \in 1..(IF hi > fromIdx THEN hi - fromIdx ELSE 0) |-> LatLon(wps[fromIdx + k])]

\* if (FASTEST_6H) { polyline of the window and a label marker at its middle }
Fastest6hLayer(wps, fastest) ==
  IF fastest # Null
  THEN LET segPts == SegPts(wps, fastest.fromIdx, fastest.toIdx)
       IN  LayerGroup(
             { [layer |-> "fastest6h", kind |-> "polyline", points |-> segPts] }
             \cup (IF Len(segPts) > 0
                   THEN { Marker("fastest6h", segPts[(Len(segPts) \div 2) + 1]) }
                   ELSE {}))
  ELSE LayerGroup({})

\* The keys of HIGHLIGHT_EVENTS.
HIGHLIGHT_EVENTS == { "fish", "storm", "thursdayIsland", "diving", "cairns" }

\* buildEventLayer(key)
buildEventLayer(key) ==
  IF key \notin HIGHLIGHT_EVENTS THEN LayerGroup({})
  ELSE LayerGroup({ Marker(key, key) })

\* wpLayer: one marker per waypoint.
WaypointLayer(wps) ==
  LayerGroup({ Marker("waypoints", wps[i].index) : i \in 1..Len(wps) })

\* layersRef.current after buildMap.
BuiltLayers(wps, activeLeg, top, fastest) ==
  [k \in {"legs"} \cup KeySet |->
     CASE k = "legs" -> BuildLegLayer(wps, activeLeg)
       [] k = "nightWatch" -> NightLayerGroup(wps)
       [] k = "topSpeed" -> TopSpeedLayer(top)
       [] k = "fastest6h" -> Fastest6hLayer(wps, fastest)
       [] OTHER -> buildEventLayer(k)]

\* What buildMap adds to the map itself: the tiles, the leg layer, the vessel.
BaseLayers == { "oceanBase", "oceanRef", "legs", "vessel" }

toggleLayerAddOnly(layers, onMap, key, on) ==
  IF key \notin DOMAIN layers THEN onMap ELSE onMap \cup {key}

\* toggleLayer(key, on) of setLayerVisibility, on the set of layers of the map.
toggleLayer(layers, onMap, key, on) ==
  IF key \notin DOMAIN layers THEN onMap
  ELSE IF on THEN onMap \cup {key} ELSE onMap \ {key}

RECURSIVE ToggleFrom(_, _, _, _)
ToggleFrom(layers, onMap, hs, i) ==
  IF i > Len(HighlightKeys) THEN onMap
  ELSE ToggleFrom(layers,
                  toggleLayer(layers, onMap, HighlightKeys[i], hs[HighlightKeys[i]]),
                  hs, i + 1)

\* setLayerVisibility(map, hs): the layers of the map afterwards.
setLayerVisibility(layers, onMap, hs) == ToggleFrom(layers, onMap, hs, 1)

\* setWaypointLayerVisibility(map, zoom)
setWaypointLayerVisibility(wpLayer, onMap, zoom) ==
  IF wpLayer = Null THEN onMap
  ELSE IF zoom >= 9 THEN onMap \cup {"waypoints"} ELSE onMap \ {"waypoints"}

\* ----------------------------------------------------------------- state
VARIABLES
  WAYPOINTS,          \* the track dataset (journey-data), never mutated
  selectedWaypoint,   \* page: the waypoint the dialog is open for, or Null
  waypointImages,     \* page: entries <<index, data URL>> of the record
  preview,            \* dialog: object URL of the chosen file, or Null
  exifLocation,       \* dialog: [lat, lon] read from the photo, or Null
  suggestedWp,        \* dialog: nearest waypoint to exifLocation, or Null
  pendingFile,        \* dialog: the chosen file, or Null
  step,               \* dialog: "upload" or "confirm-gps"
  saving,             \* dialog: a save was started and has not settled
  exifPending,        \* bag of files whose handleFile awaits exifr
  savePending,        \* bag of [targetWp, file] awaiting compressToBase64
  query,              \* matcher: the coordinate last matched, or Null
  matched,            \* matcher: the waypoint found for query, or Null
  event,              \* the dialog handler or continuation that ran last
  nightPc,            \* night-watch pass: "idle", "loop" or "done"
  nightI,             \* night-watch pass: the loop counter i
  nightState,         \* night-watch pass: [segment, layer] of the loop
  TOP_SPEED_1H,       \* journey-data: the fastest hour, or Null
  FASTEST_6H,         \* journey-data: the fastest six hours, or Null
  highlights,         \* page: the flag of every highlight key
  activeLeg,          \* page: the selected leg, or NullLeg
  mapZoom,            \* page: the zoom last reported by the map
  expandedLeg,        \* side panel: the leg whose details are open, or NullLeg
  build,              \* map: where buildMap is, with the props it captured
  mapRef,             \* map: mapRef.current, the Leaflet map or Null
  layersRef,          \* map: layersRef.current, layer key -> LayerGroup
  waypointLayerRef,   \* map: waypointLayerRef.current, LayerGroup or Null
  mapLayers,          \* map: the keys of the layers that are on the map
  pendingBuilds,      \* map: buildMap calls of the mounted component awaiting leaflet
  orphanBuilds,       \* map: buildMap calls of unmounted components awaiting leaflet
  liveMaps,           \* map: Leaflet maps created and not removed
  imgSize,            \* compression: [width, height] of the decoded image, or Null
  canvasSize          \* compression: [width, height] of the canvas, or Null

pageVars == << selectedWaypoint, waypointImages >>
dialogVars == << preview, exifLocation, suggestedWp, pendingFile, step, saving >>
asyncVars == << exifPending, savePending >>
matchVars == << query, matched >>
nightVars == << nightPc, nightI, nightState >>
dataVars == << TOP_SPEED_1H, FASTEST_6H >>
panelVars == << highlights, activeLeg, mapZoom, expandedLeg >>
mapVars == << build, mapRef, layersRef, waypointLayerRef, mapLayers >>
lifeVars == << pendingBuilds, orphanBuilds, liveMaps >>
imageVars == << imgSize, canvasSize >>
chartVars == << nightVars, dataVars, panelVars, mapVars, lifeVars, imageVars >>
vars == << WAYPOINTS, pageVars, dialogVars, asyncVars, matchVars, event,
          chartVars >>

\* State after construction of the page and the dialog (useState defaults).
FlowInit ==
  /\ selectedWaypoint = Null
  /\ waypointImages = {}
  /\ preview = Null
  /\ exifLocation = Null
  /\ suggestedWp = Null
  /\ pendingFile = Null
  /\ step = "upload"
  /\ saving = FALSE
  /\ exifPending = EmptyBag
  /\ savePending = EmptyBag
  /\ event = "none"

\* The night-watch pass is not running.
NightIdle ==
  /\ nightPc = "idle"
  /\ nightI = 0
  /\ nightState = NightStart

\* The AdventureMap chunk is still loading: the component is not mounted.
NotMounted == [pc |-> "chunk"]

\* State after construction of the page and the side panel (useState
\* defaults) and of the refs of the map (useRef defaults).
PanelInit ==
  /\ highlights = AllOn
  /\ activeLeg = NullLeg
  /\ mapZoom = 6
  /\ expandedLeg = NullLeg
  /\ build = NotMounted
  /\ mapRef = Null
  /\ layersRef = << >>
  /\ waypointLayerRef = Null
  /\ mapLayers = {}
  /\ pendingBuilds = 0
  /\ orphanBuilds = 0
  /\ liveMaps = 0

\* No image is being compressed.
NoImage ==
  /\ imgSize = Null
  /\ canvasSize = Null

\* A dataset without the two speed windows.
NoWindows ==
  /\ TOP_SPEED_1H = Null
  /\ FASTEST_6H = Null

Init ==
  /\ WAYPOINTS = TRACK
  /\ FlowInit
  /\ query = Null
  /\ matched = Null
  /\ NightIdle
  /\ NoWindows
  /\ PanelInit
  /\ NoImage

\* ------------------------------------------------------------------ page
handleImageSavedKeepOld(prev, waypointIdx, imageUrl) ==
  prev \cup { << waypointIdx, imageUrl >> }

\* setWaypointImages(prev => ({ ...prev, [waypointIdx]: imageUrl }))
handleImageSaved(prev, waypointIdx, imageUrl) ==
  { e \in prev : e[1] # waypointIdx } \cup { << waypointIdx, imageUrl >> }

\* The dialog is modal: the map is reachable only while it is closed.
DialogOpen == selectedWaypoint # Null

\* Click on a waypoint marker: onWaypointClick(wp) = setSelectedWaypoint(wp).
MarkerClick(wp) ==
  /\ ~DialogOpen
  /\ \E i \in 1..Len(WAYPOINTS) : wp = WAYPOINTS[i]
  /\ selectedWaypoint' = wp
  /\ event' = "MarkerClick"
  /\ UNCHANGED << WAYPOINTS, waypointImages, dialogVars, asyncVars, matchVars, chartVars >>

\* "wp-upload" custom event from a map popup, with any detail.
WpUploadEvent(detail) ==
  /\ ~DialogOpen
  /\ LET wp == WaypointAt(WAYPOINTS, detail)
     IN  selectedWaypoint' = IF wp # Null THEN wp ELSE selectedWaypoint
  /\ event' = "WpUploadEvent"
  /\ UNCHANGED << WAYPOINTS, waypointImages, dialogVars, asyncVars, matchVars, chartVars >>

\* onClose = () => setSelectedWaypoint(null)
onClose == selectedWaypoint' = Null

\* ---------------------------------------------------------------- dialog
resetStateKeepsSaving ==
  /\ preview' = Null
  /\ exifLocation' = Null
  /\ suggestedWp' = Null
  /\ pendingFile' = Null
  /\ step' = "upload"
  /\ UNCHANGED saving

resetState ==
  /\ preview' = Null
  /\ exifLocation' = Null
  /\ suggestedWp' = Null
  /\ pendingFile' = Null
  /\ step' = "upload"
  /\ saving' = FALSE

\* Number of awaited operations that have not settled yet.
InFlight == BagCardinality(exifPending) + BagCardinality(savePending)

\* Render guards of the dialog body.
ShowsConfirm ==
  DialogOpen /\ step = "confirm-gps" /\ suggestedWp # Null /\ preview # Null
ShowsSaveRemove == DialogOpen /\ step = "upload" /\ preview # Null
ShowsDropArea == DialogOpen /\ step = "upload" /\ preview = Null

\* handleFile up to its first await: a file is dropped or picked.
ChooseFile(file) ==
  /\ ShowsDropArea
  /\ InFlight < MaxPending
  /\ preview' = createObjectURL(file)
  /\ pendingFile' = file
  /\ exifPending' = exifPending (+) SetToBag({file})
  /\ event' = "ChooseFile"
  /\ UNCHANGED << WAYPOINTS, pageVars, exifLocation, suggestedWp, step, saving,
                  savePending, matchVars, chartVars >>

\* handleFile after exifr.gps(file) settled.
ExifSettle(file) ==
  /\ BagIn(file, exifPending)
  /\ exifPending' = exifPending (-) SetToBag({file})
  /\ event' = "ExifSettle"
  /\ IF GpsFound(file.gps)
     THEN /\ exifLocation' = [lat |-> file.gps.latitude, lon |-> file.gps.longitude]
          /\ suggestedWp' =
               NearestWaypoint(WAYPOINTS, file.gps.latitude, file.gps.longitude)
          /\ step' = "confirm-gps"
     ELSE UNCHANGED << exifLocation, suggestedWp, step >>
  /\ UNCHANGED << WAYPOINTS, pageVars, preview, pendingFile, saving,
                  savePending, matchVars, chartVars >>

\* saveToWaypoint up to its await.
saveToWaypoint(targetWp) ==
  /\ InFlight < MaxPending
  /\ IF pendingFile = Null
     THEN UNCHANGED << saving, savePending >>
     ELSE /\ saving' = TRUE
          /\ savePending' =
               savePending (+) SetToBag({[targetWp |-> targetWp, file |-> pendingFile]})
  /\ UNCHANGED << WAYPOINTS, pageVars, preview, exifLocation, suggestedWp,
                  pendingFile, step, exifPending, matchVars, chartVars >>

UseGpsWaypointKeepsSelected ==
  /\ ShowsConfirm /\ ~saving
  /\ saveToWaypoint(selectedWaypoint)
  /\ event' = "UseGpsWaypoint"

\* Button "Use GPS waypoint".
UseGpsWaypoint ==
  /\ ShowsConfirm /\ ~saving
  /\ saveToWaypoint(suggestedWp)
  /\ event' = "UseGpsWaypoint"

\* Button "Keep selected".
KeepSelected ==
  /\ ShowsConfirm /\ ~saving
  /\ saveToWaypoint(selectedWaypoint)
  /\ event' = "KeepSelected"

\* Button "Save to Waypoint".
SaveButton ==
  /\ ShowsSaveRemove /\ ~saving
  /\ saveToWaypoint(selectedWaypoint)
  /\ event' = "SaveButton"

\* Button "Remove".
Remove ==
  /\ ShowsSaveRemove /\ ~saving
  /\ resetState
  /\ event' = "Remove"
  /\ UNCHANGED << WAYPOINTS, pageVars, asyncVars, matchVars, chartVars >>

\* Dialog onOpenChange: resetState(); onClose().
CloseDialog ==
  /\ DialogOpen
  /\ resetState
  /\ onClose
  /\ event' = "CloseDialog"
  /\ UNCHANGED << WAYPOINTS, waypointImages, asyncVars, matchVars, chartVars >>

onSaveErrorIgnored ==
  UNCHANGED << pageVars, preview, exifLocation, suggestedWp, pendingFile,
               step, saving >>

\* catch { setSaving(false); }
onSaveError ==
  /\ saving' = FALSE
  /\ UNCHANGED << pageVars, preview, exifLocation, suggestedWp, pendingFile, step >>

\* saveToWaypoint after compressToBase64 settled.
CompressSettle(s) ==
  /\ BagIn(s, savePending)
  /\ savePending' = savePending (-) SetToBag({s})
  /\ IF s.file.image
     THEN /\ waypointImages' =
               handleImageSaved(waypointImages, s.targetWp.index,
                                compressToBase64(s.file))
          /\ resetState
          /\ onClose
          /\ event' = "SaveDone"
     ELSE /\ onSaveError
          /\ event' = "SaveFailed"
  /\ UNCHANGED << WAYPOINTS, exifPending, matchVars, chartVars >>

Next ==
  \/ \E i \in 1..Len(WAYPOINTS) : MarkerClick(WAYPOINTS[i])
  \/ \E detail \in -1..Len(WAYPOINTS) : WpUploadEvent(detail)
  \/ \E file \in Files : ChooseFile(file)
  \/ \E file \in Files : ExifSettle(file)
  \/ UseGpsWaypoint
  \/ KeepSelected
  \/ SaveButton
  \/ Remove
  \/ CloseDialog
  \/ \E s \in BagToSet(savePending) : CompressSettle(s)

Spec == Init /\ [][Next]_vars

\* ------------------------------------------------ matcher on its own
\* The scan of handleFile applied to any dataset and any photo coordinate.
MatchInit ==
  /\ WAYPOINTS \in Datasets
  /\ FlowInit
  /\ query = Null
  /\ matched = Null
  /\ NightIdle
  /\ NoWindows
  /\ PanelInit
  /\ NoImage

\* Photo coordinates handed to the scan: the lattice, and two coordinates
\* outside the valid latitude / longitude range.
QueryPoints == Points \cup { << 120, 60 >>, << 60, 240 >> }

\* The branch of handleFile taken for a photo coordinate (lat, lon):
\* setExifLocation, the scan, setSuggestedWp(best), setStep("confirm-gps").
Match(lat, lon) ==
  /\ query' = [lat |-> lat, lon |-> lon]
  /\ matched' = NearestWaypoint(WAYPOINTS, lat, lon)
  /\ exifLocation' = [lat |-> lat, lon |-> lon]
  /\ suggestedWp' = NearestWaypoint(WAYPOINTS, lat, lon)
  /\ step' = "confirm-gps"
  /\ event' = "Match"
  /\ UNCHANGED << WAYPOINTS, pageVars, preview, pendingFile, saving, asyncVars,
                  chartVars >>

MatchNext == \E p \in QueryPoints : Match(p[1], p[2])

MatchSpec == MatchInit /\ [][MatchNext]_vars

\* ------------------------------------------- night-watch pass on its own
\* Zone offsets of the voyage: ACST (+09:30) and AEST (+10:00).
Offsets == {570, 600}

\* Every half hour of a day, in both zones.
ClockTimes ==
  { IsoTime(0, h, m, off) : h \in 0..23, m \in {0, 30}, off \in Offsets }

\* Log times (ACST) of two evenings; by UTC hour they classify as
\* day, night, night, night, day, day, night, night, day.
LogTimes ==
  { IsoTime(0, 16, 0, 570), IsoTime(0, 17, 30, 570), IsoTime(0, 23, 0, 570),
    IsoTime(1, 6, 0, 570), IsoTime(1, 6, 30, 570), IsoTime(1, 12, 0, 570),
    IsoTime(1, 18, 0, 570), IsoTime(2, 2, 0, 570), IsoTime(2, 9, 0, 570) }

\* Positions given to the waypoints of a timed track, by index.
LogPositions ==
  << << 0, 60 >>, << 0, 180 >>, << -60, 60 >>, << -60, 180 >>, << 60, 60 >>,
     << 60, 180 >>, << 0, -120 >>, << -60, -120 >>, << 60, -120 >> >>

RECURSIVE InTimeOrder(_)
\* The times of a set as a sequence in strictly increasing order.
InTimeOrder(times) ==
  IF times = {} THEN << >>
  ELSE LET first == CHOOSE t \in times : \A u \in times : DateOf(t) <= DateOf(u)
       IN  << first >> \o InTimeOrder(times \ {first})

\* The track logged at the given times, all in one leg.
TimedTrack(times) ==
  LET ts == InTimeOrder(times)
  IN  [i \in 1..Len(ts) |->
        ChartWaypoint(i - 1, LogPositions[((i - 1) % 9) + 1][1],
                      LogPositions[((i - 1) % 9) + 1][2], ts[i], "Setting Out")]

TimedTracks ==
  { TimedTrack(ts) : ts \in { x \in SUBSET LogTimes : Cardinality(x) <= MaxNight } }
    \cup { TimedTrack({t}) : t \in ClockTimes }

NightInit ==
  /\ WAYPOINTS \in TimedTracks
  /\ FlowInit
  /\ query = Null
  /\ matched = Null
  /\ nightPc = "loop"
  /\ nightI = 0
  /\ nightState = NightStart
  /\ NoWindows
  /\ PanelInit
  /\ NoImage

\* for (let i = 0; i < WAYPOINTS.length; i++) { ... }, one iteration.
NightIterate ==
  /\ nightPc = "loop"
  /\ nightI < Len(WAYPOINTS)
  /\ nightState' = NightIteration(nightState, WAYPOINTS[nightI + 1])
  /\ nightI' = nightI + 1
  /\ event' = "NightIterate"
  /\ UNCHANGED << WAYPOINTS, pageVars, dialogVars, asyncVars, matchVars, nightPc,
                  dataVars, panelVars, mapVars, lifeVars, imageVars >>

\* The loop has ended: the last run is added if it has two points.
NightFinish ==
  /\ nightPc = "loop"
  /\ nightI >= Len(WAYPOINTS)
  /\ nightState' = [segment |-> nightState.segment, layer |-> NightFlush(nightState)]
  /\ nightPc' = "done"
  /\ event' = "NightFinish"
  /\ UNCHANGED << WAYPOINTS, pageVars, dialogVars, asyncVars, matchVars, nightI,
                  dataVars, panelVars, mapVars, lifeVars, imageVars >>

NightNext == NightIterate \/ NightFinish

NightSpec == NightInit /\ [][NightNext]_vars

\* ------------------------------------------------- side panel and chart
\* The legs of the voyage, in order.
LEG_ORDER == << "Setting Out", "Gulf of Carpentaria" >>

\* A track of four waypoints logged at the given times, two to a leg.
LeggedTrack(times) ==
  LET wps == TimedTrack(times)
  IN  [i \in 1..Len(wps) |-> [wps[i] EXCEPT !.leg = LEG_ORDER[((i - 1) \div 2) + 1]]]

\* A track with a night run: day, night, night, day.
NightRunTrack ==
  LeggedTrack({ IsoTime(0, 16, 0, 570), IsoTime(0, 17, 30, 570),
                IsoTime(0, 23, 0, 570), IsoTime(1, 6, 30, 570) })

\* A track without a night run: day, night, day, night.
NoNightRunTrack ==
  LeggedTrack({ IsoTime(0, 16, 0, 570), IsoTime(0, 17, 30, 570),
                IsoTime(1, 6, 30, 570), IsoTime(1, 18, 0, 570) })

\* The fastest hour of a track, when the dataset has one.
TopSpeedOf(wps) ==
  [fromLat |-> wps[1].lat, fromLon |-> wps[1].lon,
   toLat |-> wps[2].lat, toLon |-> wps[2].lon, speed |-> 9]

\* The fastest six hours of a track, when the dataset has them.
FastestOf(wps) == [fromIdx |-> 1, toIdx |-> Len(wps) - 1, speed |-> 7]

\* Datasets << WAYPOINTS, TOP_SPEED_1H, FASTEST_6H >>: all three layers have
\* geometry, one speed window is absent, or none of the three has any.
ChartDatasets ==
  { << NightRunTrack, TopSpeedOf(NightRunTrack), FastestOf(NightRunTrack) >>,
    << NightRunTrack, Null, FastestOf(NightRunTrack) >>,
    << NightRunTrack, TopSpeedOf(NightRunTrack), Null >>,
    << NoNightRunTrack, Null, Null >> }

MapInit ==
  /\ \E d \in ChartDatasets :
       /\ WAYPOINTS = d[1]
       /\ TOP_SPEED_1H = d[2]
       /\ FASTEST_6H = d[3]
  /\ FlowInit
  /\ query = Null
  /\ matched = Null
  /\ NightIdle
  /\ PanelInit
  /\ NoImage

\* The flags that are off.
Off(hs) == { k \in KeySet : ~hs[k] }

\* Before the map is built only the first MaxEarly keys are switched off.
EarlyOk(hs) ==
  build.pc = "done" \/ Off(hs) \subseteq { HighlightKeys[i] : i \in 1..MaxEarly }

\* useEffect(..., [highlights]), run with the new highlights.
HighlightsEffect ==
  mapLayers' = IF mapRef = Null THEN mapLayers
               ELSE setLayerVisibility(layersRef, mapLayers, highlights')

\* A Switch of the Highlights tab: onHighlightChange(key, !checked).
SwitchChange(key) ==
  /\ EarlyOk(handleHighlightChange(highlights, key, ~highlights[key]))
  /\ highlights' = handleHighlightChange(highlights, key, ~highlights[key])
  /\ HighlightsEffect
  /\ UNCHANGED << WAYPOINTS, pageVars, dialogVars, asyncVars, matchVars, event,
                  nightVars, lifeVars, imageVars,
                  dataVars, activeLeg, mapZoom, expandedLeg, build, mapRef,
                  layersRef, waypointLayerRef >>

\* Show All (value TRUE) and Hide All (value FALSE).
SetAll(value) ==
  /\ EarlyOk(SetEach(highlights, 1, value))
  /\ highlights' = SetEach(highlights, 1, value)
  /\ HighlightsEffect
  /\ UNCHANGED << WAYPOINTS, pageVars, dialogVars, asyncVars, matchVars, event,
                  nightVars, lifeVars, imageVars,
                  dataVars, activeLeg, mapZoom, expandedLeg, build, mapRef,
                  layersRef, waypointLayerRef >>

ShowAll == SetAll(TRUE)

HideAll == SetAll(FALSE)

\* useEffect(..., [activeLeg]): runs when activeLeg changed.
ActiveLegEffect ==
  IF activeLeg' # activeLeg /\ mapRef # Null /\ "legs" \in DOMAIN layersRef
  THEN /\ layersRef' = [layersRef EXCEPT !["legs"] = RedrawLegLayer(WAYPOINTS, activeLeg')]
       /\ mapLayers' = (mapLayers \ {"legs"}) \cup {"legs"}
  ELSE UNCHANGED << layersRef, mapLayers >>

\* A leg button of the Legs tab.
LegClick(legName) ==
  /\ activeLeg' = IF activeLeg = legName THEN NullLeg ELSE legName
  /\ expandedLeg' = IF expandedLeg = legName THEN NullLeg ELSE legName
  /\ ActiveLegEffect
  /\ UNCHANGED << WAYPOINTS, pageVars, dialogVars, asyncVars, matchVars, event,
                  nightVars, lifeVars, imageVars,
                  dataVars, highlights, mapZoom, build, mapRef, waypointLayerRef >>

\* The All Legs button: onLegChange(null).
AllLegs ==
  /\ activeLeg' = NullLeg
  /\ ActiveLegEffect
  /\ UNCHANGED << WAYPOINTS, pageVars, dialogVars, asyncVars, matchVars, event,
                  nightVars, lifeVars, imageVars,
                  dataVars, highlights, mapZoom, expandedLeg, build, mapRef,
                  waypointLayerRef >>

\* The div of the map, containerRef.current while the component is mounted.
Container == [div |-> TRUE]

ContainerRef == IF build = NotMounted THEN Null ELSE Container

\* if (!containerRef.current || mapRef.current) return;
buildMapStarts(container, map) == container # Null /\ map = Null

\* L.map(container, ...) makes a map unless it throws: Leaflet throws for a
\* missing container and for a container that already holds a map.
LMapCreates(container, initialised) == container # Null /\ ~initialised

cleanupKeepsMap(map, live) == [mapRef |-> Null, liveMaps |-> live]

\* The cleanup of the mount effect: if (mapRef.current) { remove; null }.
cleanup(map, live) ==
  IF map # Null THEN [mapRef |-> Null, liveMaps |-> live - 1]
  ELSE [mapRef |-> map, liveMaps |-> live]

\* The build record after one call resumed: the captured props are kept
\* only while another call of the same closure still awaits leaflet.
Resumed(b, stillPending) ==
  IF stillPending > 0 THEN [b EXCEPT !.pc = "done"] ELSE [pc |-> "done"]

\* The AdventureMap chunk has loaded: the component renders for the first
\* time, buildMap is created with the props of that render and the mount
\* effect calls it; it awaits import("leaflet").
Mount ==
  /\ build = NotMounted
  /\ pendingBuilds + orphanBuilds < MaxBuilds
  /\ buildMapStarts(Container, mapRef)
  /\ build' = [pc |-> "import", highlights |-> highlights, activeLeg |-> activeLeg]
  /\ pendingBuilds' = pendingBuilds + 1
  /\ UNCHANGED << WAYPOINTS, pageVars, dialogVars, asyncVars, matchVars, event,
                  nightVars, orphanBuilds, liveMaps, imageVars,
                  dataVars, panelVars, mapRef, layersRef, waypointLayerRef,
                  mapLayers >>

\* The same under React's StrictMode: after the mount effect its cleanup
\* and the effect run once more, so buildMap is called twice before either
\* call resumes; the refs stay attached.
MountStrict ==
  /\ build = NotMounted
  /\ pendingBuilds + orphanBuilds + 1 < MaxBuilds
  /\ buildMapStarts(Container, mapRef)
  /\ buildMapStarts(Container, cleanup(mapRef, liveMaps).mapRef)
  /\ build' = [pc |-> "import", highlights |-> highlights, activeLeg |-> activeLeg]
  /\ pendingBuilds' = pendingBuilds + 2
  /\ mapRef' = cleanup(mapRef, liveMaps).mapRef
  /\ liveMaps' = cleanup(mapRef, liveMaps).liveMaps
  /\ UNCHANGED << WAYPOINTS, pageVars, dialogVars, asyncVars, matchVars, event,
                  nightVars, orphanBuilds, imageVars,
                  dataVars, panelVars, layersRef, waypointLayerRef, mapLayers >>

\* import("leaflet") resolved: the rest of buildMap runs, with the
\* highlights and the activeLeg of the render that created it.
MapBuilt ==
  /\ build.pc \in { "import", "done" }
  /\ pendingBuilds > 0
  /\ LMapCreates(ContainerRef, mapRef # Null)
  /\ mapRef' = [zoom |-> 6]
  /\ layersRef' = BuiltLayers(WAYPOINTS, build.activeLeg, TOP_SPEED_1H, FASTEST_6H)
  /\ waypointLayerRef' = WaypointLayer(WAYPOINTS)
  /\ mapLayers' = setLayerVisibility(layersRef', BaseLayers, build.highlights)
  /\ build' = Resumed(build, pendingBuilds - 1)
  /\ pendingBuilds' = pendingBuilds - 1
  /\ liveMaps' = liveMaps + 1
  /\ UNCHANGED << WAYPOINTS, pageVars, dialogVars, asyncVars, matchVars, event,
                  nightVars, orphanBuilds, imageVars,
                  dataVars, panelVars >>

\* import("leaflet") resolved for a call whose L.map(...) throws: buildMap
\* ends there, its promise is rejected.
BuildThrows ==
  /\ build.pc \in { "import", "done" }
  /\ pendingBuilds > 0
  /\ ~LMapCreates(ContainerRef, mapRef # Null)
  /\ build' = Resumed(build, pendingBuilds - 1)
  /\ pendingBuilds' = pendingBuilds - 1
  /\ UNCHANGED << WAYPOINTS, pageVars, dialogVars, asyncVars, matchVars, event,
                  nightVars, orphanBuilds, liveMaps, imageVars,
                  dataVars, panelVars, mapRef, layersRef, waypointLayerRef,
                  mapLayers >>

\* The component unmounts: the cleanup of the mount effect runs, React
\* detaches the refs, and calls of buildMap that still await leaflet are
\* left behind with a container ref that is null.
Unmount ==
  /\ build # NotMounted
  /\ build' = NotMounted
  /\ liveMaps' = cleanup(mapRef, liveMaps).liveMaps
  /\ mapRef' = Null
  /\ layersRef' = << >>
  /\ waypointLayerRef' = Null
  /\ mapLayers' = {}
  /\ orphanBuilds' = orphanBuilds + pendingBuilds
  /\ pendingBuilds' = 0
  /\ UNCHANGED << WAYPOINTS, pageVars, dialogVars, asyncVars, matchVars, event,
                  nightVars, imageVars, dataVars, panelVars >>

\* import("leaflet") resolved for a call of an unmounted component: it goes
\* on to L.map(containerRef.current, ...) with the ref null.
OrphanResolved ==
  /\ orphanBuilds > 0
  /\ orphanBuilds' = orphanBuilds - 1
  /\ liveMaps' = IF LMapCreates(Null, FALSE) THEN liveMaps + 1 ELSE liveMaps
  /\ UNCHANGED << WAYPOINTS, pageVars, dialogVars, asyncVars, matchVars, event,
                  nightVars, pendingBuilds, imageVars, dataVars, panelVars,
                  mapVars >>

\* Zoom levels the viewer moves between.
Zooms == { 6, 9 }

\* map.on("zoomend"): onZoomChange(map.getZoom()), then the mapZoom effect.
ZoomEnd(z) ==
  /\ mapRef # Null
  /\ mapRef' = [zoom |-> z]
  /\ mapZoom' = z
  /\ mapLayers' = IF z # mapZoom
                  THEN setWaypointLayerVisibility(waypointLayerRef, mapLayers, z)
                  ELSE mapLayers
  /\ UNCHANGED << WAYPOINTS, pageVars, dialogVars, asyncVars, matchVars, event,
                  nightVars, lifeVars, imageVars,
                  dataVars, highlights, activeLeg, expandedLeg, build, layersRef,
                  waypointLayerRef >>

MapNext ==
  \/ \E i \in 1..Len(HighlightKeys) : SwitchChange(HighlightKeys[i])
  \/ ShowAll
  \/ HideAll
  \/ \E i \in 1..Len(LEG_ORDER) : LegClick(LEG_ORDER[i])
  \/ AllLegs
  \/ Mount
  \/ MapBuilt
  \/ \E z \in Zooms : ZoomEnd(z)

MapSpec == MapInit /\ [][MapNext]_vars

\* ------------------------------------------------------ the whole page
\* The page with its three components: the side panel, the map and the
\* photo dialog, on one dataset.
\* A short track of the page: two waypoints of one night.
ShortTrack == LeggedTrack({ IsoTime(0, 17, 30, 570), IsoTime(0, 23, 0, 570) })

PageInit ==
  /\ WAYPOINTS = ShortTrack
  /\ TOP_SPEED_1H = TopSpeedOf(ShortTrack)
  /\ FASTEST_6H = FastestOf(ShortTrack)
  /\ FlowInit
  /\ query = Null
  /\ matched = Null
  /\ NightIdle
  /\ PanelInit
  /\ NoImage

\* The photos the viewer picks from on the page.
PageFiles == { f \in Files : f.name \in { "geo", "plain" } }

\* The switches the viewer uses on the page.
PageKeys == { "nightWatch", "cairns" }

\* One photo is read or compressed at a time.
Quiet == InFlight = 0

\* The waypoint markers are on the map (zoom 9 and closer).
MarkersShown == mapRef # Null /\ "waypoints" \in mapLayers

\* The dialog is modal: while it is open the panel and the map behind it
\* take no clicks.
Reachable == ~DialogOpen

PageNext ==
  \/ \E key \in PageKeys : Reachable /\ SwitchChange(key)
  \/ Reachable /\ ShowAll
  \/ Reachable /\ HideAll
  \/ \E i \in 1..Len(LEG_ORDER) : Reachable /\ LegClick(LEG_ORDER[i])
  \/ Reachable /\ AllLegs
  \/ Mount
  \/ MapBuilt
  \/ \E z \in Zooms : Reachable /\ ZoomEnd(z)
  \/ \E i \in 1..Len(WAYPOINTS) : MarkersShown /\ MarkerClick(WAYPOINTS[i])
  \/ \E detail \in -1..Len(WAYPOINTS) : MarkersShown /\ WpUploadEvent(detail)
  \/ \E file \in PageFiles : Quiet /\ ChooseFile(file)
  \/ \E file \in PageFiles : ExifSettle(file)
  \/ Quiet /\ UseGpsWaypoint
  \/ Quiet /\ KeepSelected
  \/ Quiet /\ SaveButton
  \/ Remove
  \/ CloseDialog
  \/ \E s \in BagToSet(savePending) : CompressSettle(s)

PageSpec == PageInit /\ [][PageNext]_vars

\* --------------------------------------------------- image compression
\* Pixel widths and heights of the photos: around MAX_W, small and large.
Widths == { 1, 2, 640, 1199, 1200, 1201, 1600, 1800, 2400, 3024, 4032, 4800 }

Heights == { 1, 2, 3, 480, 899, 900, 1200, 1201, 2268, 3024, 4032 }

ImageInit ==
  /\ WAYPOINTS = TRACK
  /\ FlowInit
  /\ query = Null
  /\ matched = Null
  /\ NightIdle
  /\ NoWindows
  /\ PanelInit
  /\ imgSize \in [width : Widths, height : Heights]
  /\ canvasSize = Null

\* img.onload: the canvas gets the scaled size and the image is drawn on it.
ImageLoaded ==
  /\ canvasSize = Null
  /\ canvasSize' = canvasSizeOf(imgSize.width, imgSize.height)
  /\ UNCHANGED << WAYPOINTS, pageVars, dialogVars, asyncVars, matchVars, event,
                  nightVars, dataVars, panelVars, mapVars, lifeVars, imgSize >>

ImageNext == ImageLoaded

ImageSpec == ImageInit /\ [][ImageNext]_vars

\* -------------------------------------------- mounting and unmounting
LifeNext ==
  \/ Mount
  \/ MountStrict
  \/ MapBuilt
  \/ BuildThrows
  \/ Unmount
  \/ OrphanResolved
  \/ \E key \in PageKeys : SwitchChange(key)
  \/ \E i \in 1..Len(LEG_ORDER) : LegClick(LEG_ORDER[i])

LifeSpec == PageInit /\ [][LifeNext]_vars

\* ================================================================ claims
Keys(images) == { e[1] : e \in images }
ImagesAt(images, idx) == { e[2] : e \in { x \in images : x[1] = idx } }
Track == { WAYPOINTS[i] : i \in 1..Len(WAYPOINTS) }
InFlightSaves == BagToSet(savePending)

\* C1: the attachment map holds at most one image per waypoint index, and a
\* completed save of img for index i makes the attachment of i exactly img
\* and leaves the attachment of every other index as it was.
C1_OneAttachmentPerIndex ==
  /\ [](\A idx \in Keys(waypointImages) :
          Cardinality(ImagesAt(waypointImages, idx)) = 1)
  /\ [][\A s \in InFlightSaves :
          (CompressSettle(s) /\ s.file.image) =>
            /\ ImagesAt(waypointImages', s.targetWp.index)
                 = { compressToBase64(s.file) }
            /\ \A idx \in (Keys(waypointImages) \cup Keys(waypointImages'))
                           \ { s.targetWp.index } :
                 ImagesAt(waypointImages', idx) = ImagesAt(waypointImages, idx)]_vars

\* C1 witness: a save has just completed for one index while the other index
\* keeps a different image saved earlier.
C1_Witness ==
  /\ event = "SaveDone"
  /\ \E e1, e2 \in waypointImages : e1[1] # e2[1] /\ e1[2] # e2[2]

\* C2: every key of the attachment map is the index of a waypoint of the
\* track; the selected waypoint, the suggested waypoint and the target of
\* every save in flight are members of WAYPOINTS.
C2_KeysAreWaypoints ==
  /\ \A idx \in Keys(waypointImages) : \E wp \in Track : wp.index = idx
  /\ selectedWaypoint \in Track \cup {Null}
  /\ suggestedWp \in Track \cup {Null}
  /\ \A s \in InFlightSaves : s.targetWp \in Track

\* C2 witness: every waypoint of the track carries an attachment, the last
\* of them just recorded.
C2_Witness ==
  /\ Keys(waypointImages) = { wp.index : wp \in Track }
  /\ event = "SaveDone"

\* C3: while a file without embedded coordinates is the pending file, the
\* flow is in PendingFile/ReadyToSave (step "upload", its preview shown) and
\* never in ConfirmMatch.
C3_NoGpsNeverConfirm ==
  (pendingFile # Null /\ pendingFile.gps = Null) =>
    (step = "upload" /\ preview = createObjectURL(pendingFile))

\* C4: when the metadata extraction of the pending file throws, the flow
\* ends in ReadyToSave: pending file and preview kept, no suggested
\* waypoint, step "upload", attachment map unchanged.
C4_ThrowEndsReadyToSave ==
  [][\A f \in Files :
       (ExifSettle(f) /\ f.gps = Throws /\ pendingFile = f) =>
         /\ pendingFile' = f
         /\ preview' = createObjectURL(f)
         /\ suggestedWp' = Null
         /\ step' = "upload"
         /\ waypointImages' = waypointImages]_vars

ValidCoordinate(gps) ==
  /\ IsCoordinate(gps)
  /\ gps.latitude \in -90..90
  /\ gps.longitude \in -180..180

IsNearest(wp, lat, lon) ==
  /\ wp \in Track
  /\ \A o \in Track :
       haversine(lat, lon, wp.lat, wp.lon) <= haversine(lat, lon, o.lat, o.lon)

\* C5: for a non-empty dataset, when the extraction of the pending file
\* succeeds with a valid coordinate, the flow ends in ConfirmMatch with the
\* suggested waypoint a nearest waypoint.
C5_ValidGpsEndsConfirm ==
  [][\A f \in Files :
       (ExifSettle(f) /\ ValidCoordinate(f.gps) /\ pendingFile = f
          /\ Track # {}) =>
         /\ step' = "confirm-gps"
         /\ IsNearest(suggestedWp', f.gps.latitude, f.gps.longitude)]_vars

SaveAdded(targetWp) ==
  savePending' =
    savePending (+) SetToBag({[targetWp |-> targetWp, file |-> pendingFile]})

SaveStarted == BagCardinality(savePending') > BagCardinality(savePending)

\* C6: the index an attachment is recorded under follows the flow state and
\* the choice: "Use GPS waypoint" saves to the suggested waypoint, "Keep
\* selected" and "Save to Waypoint" to the selected one; in ConfirmMatch a
\* save starts only by one of the two choices, in the upload step only by
\* "Save to Waypoint"; a completed save records under its target's index.
C6_TargetFollowsChoice ==
  [][/\ UseGpsWaypoint => SaveAdded(suggestedWp)
     /\ KeepSelected => SaveAdded(selectedWaypoint)
     /\ SaveButton => SaveAdded(selectedWaypoint)
     /\ (SaveStarted /\ step = "confirm-gps") =>
          /\ UseGpsWaypoint \/ KeepSelected
          /\ SaveAdded(suggestedWp) \/ SaveAdded(selectedWaypoint)
     /\ (SaveStarted /\ step = "upload") =>
          (SaveButton /\ SaveAdded(selectedWaypoint))
     /\ \A s \in InFlightSaves :
          (CompressSettle(s) /\ s.file.image) =>
            /\ << s.targetWp.index, compressToBase64(s.file) >> \in waypointImages'
            /\ Keys(waypointImages') =
                 Keys(waypointImages) \cup { s.targetWp.index }]_vars

\* C6 witness: "Use GPS waypoint" was just clicked with a suggestion that
\* differs from the selected waypoint, and the save in flight targets it.
C6_Witness ==
  /\ event = "UseGpsWaypoint"
  /\ suggestedWp # selectedWaypoint
  /\ \E s \in InFlightSaves : s.targetWp = suggestedWp

FlowEmpty ==
  /\ preview = Null
  /\ pendingFile = Null
  /\ exifLocation = Null
  /\ suggestedWp = Null
  /\ step = "upload"
  /\ saving = FALSE

\* C7: when a save completes, the attachment is recorded under the target
\* index, the flow is Empty again and the dialog is closed.
C7_SaveResetsFlow ==
  /\ [](event = "SaveDone" => (FlowEmpty /\ selectedWaypoint = Null))
  /\ [][\A s \in InFlightSaves :
          (CompressSettle(s) /\ s.file.image) =>
            /\ ImagesAt(waypointImages', s.targetWp.index)
                 = { compressToBase64(s.file) }
            /\ FlowEmpty'
            /\ selectedWaypoint' = Null]_vars

\* C7 witness: a save has just completed and its attachment is in the map.
C7_Witness ==
  /\ event = "SaveDone"
  /\ waypointImages # {}
  /\ ~DialogOpen
  /\ pendingFile = Null

\* C8: the pending file, the preview, the EXIF location and the suggested
\* waypoint all belong to the newest selection.
C8_StateBelongsToNewest ==
  /\ preview = IF pendingFile = Null THEN Null ELSE createObjectURL(pendingFile)
  /\ exifLocation # Null =>
       /\ pendingFile # Null
       /\ IsCoordinate(pendingFile.gps)
       /\ exifLocation = [lat |-> pendingFile.gps.latitude,
                          lon |-> pendingFile.gps.longitude]
  /\ suggestedWp # Null =>
       /\ pendingFile # Null
       /\ IsCoordinate(pendingFile.gps)
       /\ IsNearest(suggestedWp, pendingFile.gps.latitude,
                    pendingFile.gps.longitude)
  /\ step = "confirm-gps" => (pendingFile # Null /\ suggestedWp # Null)

\* What the user can do next in the dialog.
CanRetrySave == (ShowsConfirm \/ ShowsSaveRemove) /\ ~saving
CanRemoveSelection == (ShowsSaveRemove /\ ~saving) \/ DialogOpen

\* C9: when image decoding fails during a save, the attachment map, the
\* dialog, the pending file and the preview are left as they are and saving
\* is false again; if the dialog still shows the failed file, the user can
\* retry the save or remove the selection (Remove, or closing the dialog).
C9_DecodeFailureKeepsFlow ==
  [][\A s \in InFlightSaves :
       (CompressSettle(s) /\ ~s.file.image) =>
         /\ waypointImages' = waypointImages
         /\ selectedWaypoint' = selectedWaypoint
         /\ pendingFile' = pendingFile
         /\ preview' = preview
         /\ saving' = FALSE
         /\ (DialogOpen /\ pendingFile = s.file) =>
              /\ preview' = createObjectURL(s.file)
              /\ CanRetrySave'
              /\ CanRemoveSelection']_vars

\* C9 witness: a save of an undecodable photo has just failed in the open
\* dialog, which still holds the photo.
C9_Witness ==
  /\ event = "SaveFailed"
  /\ DialogOpen
  /\ pendingFile # Null
  /\ ~pendingFile.image
  /\ preview = createObjectURL(pendingFile)
  /\ step = "upload"
  /\ ~saving

Dist(q, wp) == haversine(q.lat, q.lon, wp.lat, wp.lon)

\* C10: on a non-empty dataset the scan returns a waypoint whose distance to
\* the target is at most that of every waypoint; if the target is exactly a
\* waypoint's coordinates, the result is at distance 0 with those coordinates.
C10_ScanFindsMinimum ==
  (query # Null /\ Len(WAYPOINTS) > 0) =>
    /\ matched \in Track
    /\ \A wp \in Track : Dist(query, matched) <= Dist(query, wp)
    /\ (\E wp \in Track : wp.lat = query.lat /\ wp.lon = query.lon) =>
         /\ Dist(query, matched) = 0
         /\ matched.lat = query.lat
         /\ matched.lon = query.lon

\* C10 witness: the target is exactly the second waypoint, not the first,
\* and the scan returned the second.
C10_Witness ==
  /\ event = "Match"
  /\ Len(WAYPOINTS) >= 2
  /\ Dist(query, WAYPOINTS[1]) > 0
  /\ Dist(query, WAYPOINTS[2]) = 0
  /\ matched = WAYPOINTS[2]

\* C11: among the waypoints at the minimal distance the scan returns the one
\* with the smallest index.
C11_TieGoesToEarliest ==
  (event = "Match" /\ Len(WAYPOINTS) > 0) =>
    /\ matched \in Track
    /\ \A wp \in Track :
         Dist(query, wp) = Dist(query, matched) => matched.index <= wp.index

\* C11 witness: two waypoints at different places are equally near the target
\* and nearer than the third; the scan returned the earlier of the two.
C11_Witness ==
  /\ event = "Match"
  /\ Len(WAYPOINTS) >= 3
  /\ Dist(query, WAYPOINTS[2]) = Dist(query, WAYPOINTS[3])
  /\ Dist(query, WAYPOINTS[2]) < Dist(query, WAYPOINTS[1])
  /\ WAYPOINTS[2].lat # WAYPOINTS[3].lat
  /\ matched = WAYPOINTS[2]

InRange(q) == q.lat \in -90..90 /\ q.lon \in -180..180

\* C12: on an empty dataset the match is signalled as failed (no suggestion
\* and no move to ConfirmMatch); on a non-empty dataset a valid coordinate
\* always yields a waypoint.
C12_EmptyDatasetSignalled ==
  (event = "Match" /\ InRange(query)) =>
    IF Len(WAYPOINTS) = 0
    THEN suggestedWp = Null /\ step = "upload"
    ELSE matched \in Track /\ suggestedWp = matched

\* C13: a coordinate outside latitude [-90,90] or longitude [-180,180] is
\* rejected: no waypoint is suggested and the flow does not enter ConfirmMatch
\* (stated for the non-empty datasets, where the scan has something to find).
C13_InvalidCoordinateRejected ==
  (event = "Match" /\ ~InRange(query) /\ Len(WAYPOINTS) > 0) =>
    (suggestedWp = Null /\ step = "upload")

\* The dataset with its waypoints stored in the order perm.
Reordered(wps, perm) == [i \in 1..Len(wps) |-> wps[perm[i]]]

\* C14: the minimal distance found is the same for every order the waypoints
\* are stored in.
C14_MinimumIsOrderIndependent ==
  (event = "Match" /\ Len(WAYPOINTS) > 0) =>
    /\ matched \in Track
    /\ \A perm \in Permutations(1..Len(WAYPOINTS)) :
         LET other == NearestWaypoint(Reordered(WAYPOINTS, perm),
                                      query.lat, query.lon)
         IN  other \in Track /\ Dist(query, other) = Dist(query, matched)

\* C14 witness: the nearest waypoint is stored last, behind two farther ones
\* at different distances, and was found.
C14_Witness ==
  /\ event = "Match"
  /\ Len(WAYPOINTS) >= 3
  /\ Dist(query, WAYPOINTS[3]) < Dist(query, WAYPOINTS[2])
  /\ Dist(query, WAYPOINTS[2]) < Dist(query, WAYPOINTS[1])
  /\ matched = WAYPOINTS[3]

\* Waypoint i (1-based) of the track is classified as night.
NightAt(i) == isNightUTC(WAYPOINTS[i].time)

\* The maximal runs a..b of consecutive night waypoints with at least two points.
NightRuns ==
  { r \in (1..Len(WAYPOINTS)) \X (1..Len(WAYPOINTS)) :
      /\ r[1] < r[2]
      /\ \A i \in r[1]..r[2] : NightAt(i)
      /\ r[1] = 1 \/ ~NightAt(r[1] - 1)
      /\ r[2] = Len(WAYPOINTS) \/ ~NightAt(r[2] + 1) }

RunPoints(r) == [k \in 1..(r[2] - r[1] + 1) |-> LatLon(WAYPOINTS[r[1] + k - 1])]

InUTCHour(instant, h) ==
  \E mm \in 0..59 : (instant - (h * 60 + mm)) % 1440 = 0

\* C16: an iteration of the pass treats its waypoint as night (appends it to
\* the current run) exactly when the UTC hour of its timestamp is in 8..20,
\* whatever the position of the waypoint and whatever run was collected.
C16_NightIsUTCHour8To20 ==
  [][NightIterate =>
       LET wp == WAYPOINTS[nightI + 1]
       IN  (nightState'.segment = Append(nightState.segment, LatLon(wp)))
             <=> (\E h \in 8..20 : InUTCHour(DateOf(wp.time), h))]_vars

\* C16 witness: a waypoint logged at 06:00 ACST (20:30 UTC) has just been
\* appended to the current run.
C16_Witness ==
  /\ event = "NightIterate"
  /\ nightI >= 1
  /\ InUTCHour(DateOf(WAYPOINTS[nightI].time), 20)
  /\ Len(nightState.segment) >= 1
  /\ nightState.segment[Len(nightState.segment)] = LatLon(WAYPOINTS[nightI])

\* The shapes of the layer with the given key.
LayerShapes(k) ==
  IF k \in DOMAIN layersRef THEN layersRef[k].shapes
  ELSE IF k = "waypoints" /\ waypointLayerRef # Null THEN waypointLayerRef.shapes
  ELSE {}

\* Everything drawn: the shapes of the layers that are on the map.
Rendered == UNION { LayerShapes(k) : k \in mapLayers }

\* The highlight layers of which something is drawn.
RenderedHighlights == { k \in KeySet : \E sh \in Rendered : sh.layer = k }

\* The dataset has geometry for the highlight layer.
HasGeometry(k) ==
  CASE k = "nightWatch" -> NightRuns # {}
    [] k = "topSpeed" -> TOP_SPEED_1H # Null
    [] k = "fastest6h" -> FASTEST_6H # Null
    [] OTHER -> TRUE

\* The flags that are on.
On(hs) == { k \in KeySet : hs[k] }

\* A step that applies a toggle set to the built map: the end of buildMap,
\* or a change of the highlights while the map exists.
AppliesToggleSet ==
  \/ MapBuilt
  \/ /\ mapRef # Null
     /\ \/ \E i \in 1..Len(HighlightKeys) : SwitchChange(HighlightKeys[i])
        \/ ShowAll
        \/ HideAll

\* C17: after a toggle set is applied to a built map, the highlight layers
\* on the map are exactly those whose flag is true, and what is drawn of the
\* highlights is exactly the flagged layers that have geometry: nothing with
\* all flags false, every layer with geometry with all flags true.
C17_LayersFollowAppliedFlags ==
  [][AppliesToggleSet =>
       LET hs == IF MapBuilt THEN build.highlights ELSE highlights'
       IN  /\ mapLayers' \cap KeySet = On(hs)
           /\ RenderedHighlights' = { k \in On(hs) : HasGeometry(k) }]_vars

\* C17 witness: on a built map "storm" and "diving" were switched off and
\* are not drawn, while the other layers of a full dataset are.
C17_Witness ==
  /\ mapRef # Null
  /\ Off(highlights) = { "storm", "diving" }
  /\ TOP_SPEED_1H # Null /\ FASTEST_6H # Null
  /\ mapLayers \cap KeySet = KeySet \ { "storm", "diving" }
  /\ RenderedHighlights = KeySet \ { "storm", "diving" }

\* C18: when the dataset has no TOP_SPEED_1H, nothing of the top-speed layer
\* is drawn, and when it has no FASTEST_6H, nothing of the fastest-six-hours
\* layer is drawn, whatever the flags are.
C18_NoGeometryNeverRendered ==
  /\ TOP_SPEED_1H = Null => "topSpeed" \notin RenderedHighlights
  /\ FASTEST_6H = Null => "fastest6h" \notin RenderedHighlights

\* C18 witness: a built map of a dataset without TOP_SPEED_1H whose topSpeed
\* flag is on after being switched off and on again; the fastest-six-hours
\* layer is drawn, the top-speed layer is not.
C18_Witness ==
  /\ mapRef # Null
  /\ TOP_SPEED_1H = Null /\ FASTEST_6H # Null
  /\ highlights["topSpeed"] /\ ~highlights["cairns"]
  /\ "topSpeed" \in mapLayers
  /\ "fastest6h" \in RenderedHighlights
  /\ "topSpeed" \notin RenderedHighlights

\* Emphasis of a leg line, as percent opacity: the glow line (weight 8) and
\* the bright line (weight 3), full or reduced.
LegEmphasis(weight, full) ==
  IF weight = 8 THEN (IF full THEN 15 ELSE 4) ELSE (IF full THEN 95 ELSE 20)

\* C19: on a built map every leg line is drawn with the emphasis that the
\* selected leg gives its leg: full when no leg or its own leg is selected,
\* the one reduced emphasis otherwise.
C19_LegEmphasisFollowsSelection ==
  mapRef # Null =>
    \A sh \in LayerShapes("legs") :
      sh.opacity = LegEmphasis(sh.weight, IsActiveLeg(activeLeg, sh.leg))

\* C20: a switch sets the flag of its key and leaves the seven other flags
\* as they were, and the flags change in no step other than a switch, Show
\* All or Hide All: not when a leg is selected, the map is zoomed, mounted or
\* built, the dialog is opened or closed, a file is chosen or a photo saved.
C20_FlagsChangeOnlyByToggles ==
  [][/\ \A key \in KeySet :
          SwitchChange(key) =>
            highlights' = [k \in KeySet |->
                             IF k = key THEN ~highlights[key] ELSE highlights[k]]
     /\ highlights' # highlights =>
          \/ \E key \in KeySet : SwitchChange(key)
          \/ ShowAll
          \/ HideAll]_vars

\* C20 witness: with only "cairns" switched off, a leg selected and the map
\* zoomed in, the dialog is open on a chosen file after an earlier save.
C20_Witness ==
  /\ Off(highlights) = { "cairns" }
  /\ activeLeg # NullLeg
  /\ mapZoom = 9
  /\ DialogOpen
  /\ pendingFile # Null
  /\ waypointImages # {}

\* C21: the canvas is min(w, 1200) wide, so never wider than 1200; a source
\* of width at most 1200 keeps its size, and a wider one gets the height
\* nearest to h * 1200 / w, a half rounding up.
C21_WidthCappedAt1200 ==
  canvasSize # Null =>
    LET w == imgSize.width
        h == imgSize.height
    IN  /\ canvasSize.width = (IF w < 1200 THEN w ELSE 1200)
        /\ canvasSize.width <= 1200
        /\ w <= 1200 => canvasSize = [width |-> w, height |-> h]
        /\ w > 1200 =>
             /\ 2 * w * canvasSize.height - 2 * h * 1200 <= w
             /\ 2 * w * canvasSize.height - 2 * h * 1200 > -w

\* C21 witness: a 1600 x 899 photo was drawn at 1200 x 674 (674.25 rounded).
C21_Witness ==
  /\ imgSize = [width |-> 1600, height |-> 899]
  /\ canvasSize = [width |-> 1200, height |-> 674]

\* C22: once the map is built and the effects have run, a highlight layer
\* is on the map exactly when its current flag is true, also when switches
\* were changed while the map was loading.
C22_LayersFollowCurrentFlags ==
  build.pc = "done" => mapLayers \cap KeySet = On(highlights)

\* C23: a save that completes when no save is running in the dialog (the
\* flow that started it was closed, which cleared the saving flag) records
\* no attachment and changes neither the dialog state nor the selection, so
\* it does not reset or close a dialog that was opened afterwards.
C23_LateSaveHasNoEffect ==
  [][\A s \in InFlightSaves :
       (CompressSettle(s) /\ s.file.image /\ ~saving) =>
         UNCHANGED << waypointImages, selectedWaypoint, dialogVars >>]_vars

\* C24: step "confirm-gps" comes with a suggested waypoint and a preview,
\* so an open dialog always renders the drop area, the save and remove
\* buttons or the two confirm buttons.
C24_OpenDialogAlwaysRendersControls ==
  /\ step = "confirm-gps" => suggestedWp # Null /\ preview # Null
  /\ DialogOpen => ShowsDropArea \/ ShowsSaveRemove \/ ShowsConfirm

\* C25: the container never holds more than one map, and while the
\* component is not mounted no map is left, whatever calls of buildMap were
\* awaiting leaflet when the cleanup ran.
C25_AtMostOneMapNoneAfterUnmount ==
  /\ liveMaps <= 1
  /\ build = NotMounted => liveMaps = 0 /\ mapRef = Null
  /\ liveMaps = (IF mapRef = Null THEN 0 ELSE 1)

\* C25 witness: the component was unmounted while a call of buildMap was
\* awaiting leaflet and mounted again; the new instance has built its map
\* and the old call has not resumed yet.
C25_Witness ==
  /\ orphanBuilds > 0
  /\ build.pc = "done"
  /\ mapRef # Null
  /\ liveMaps = 1

\* C26: a click on Show All leaves all eight flags true and a click on Hide
\* All leaves all eight false, whatever the flags were before.
C26_ShowAllHideAllSetEveryFlag ==
  [][/\ ShowAll => highlights' = AllOn
     /\ HideAll => highlights' = [k \in KeySet |-> FALSE]]_vars

\* C26 witness: a map is built, every flag is off and none of the highlight
\* layers is on the map.
C26_Witness ==
  /\ mapRef # Null
  /\ On(highlights) = {}
  /\ mapLayers \cap KeySet = {}

\* C27: the expanded leg of the side panel, if there is one, is the active
\* leg.
C27_ExpandedLegIsActiveLeg ==
  expandedLeg # NullLeg => expandedLeg = activeLeg

====
